---- MODULE Spec2Model ----
(***************************************************************************)
(* pgtool: PostgreSQL backup and restore tool (pgtool.go).                 *)
(*                                                                         *)
(* One process, one invocation.  The state is the filesystem (a set of     *)
(* entries), the wall clock, the command line, and the position of the     *)
(* process in runBackup / runRestore / cleanupOldBackups.  Outcomes of the *)
(* environment (an open that fails, pg_dump exiting non-zero, a gzip       *)
(* trailer that cannot be flushed) are nondeterministic choices.           *)
(*                                                                         *)
(* Paths are sequences of one-character strings, so that slicing           *)
(* (backupFile[:len-3]), filepath.Ext and the lexical order of             *)
(* filepath.Walk are computed, not assumed.                                *)
(***************************************************************************)
EXTENDS Integers, Sequences, FiniteSets, TLC

\* ---------------------------------------------------------------- bounds
\* clock value when the process starts; older files have mtime in 0..Now0
Now0 == 4
\* how many times the clock may advance during one run
MaxTicks == 1
\* clock ticks per calendar day
TicksPerDay == 2
\* largest and (negated) smallest value given to -retention
MaxRetention == 2
MaxNegRetention == 1

\* ------------------------------------------------------------ characters
\* the characters used in paths, in byte order
Alphabet ==
  <<".", "/", "0", "1", "2", "3", "4", "5", "6", "7", "8", "9", "_",
    "a", "b", "c", "d", "e", "g", "l", "m", "n", "p", "s", "u", "x", "z">>

Rank(c) == CHOOSE i \in 1..Len(Alphabet) : Alphabet[i] = c

Digits == <<"0", "1", "2", "3", "4", "5", "6", "7", "8", "9">>

Min(a, b) == IF a < b THEN a ELSE b

\* byte-wise string order, as sort.Strings in filepath.Walk's readDirNames
LexLess(p, q) ==
  \E i \in 1..(Min(Len(p), Len(q)) + 1) :
     /\ \A j \in 1..(i - 1) : p[j] = q[j]
     /\ \/ i > Len(p) /\ i <= Len(q)
        \/ i <= Len(p) /\ i <= Len(q) /\ Rank(p[i]) < Rank(q[i])

\* ----------------------------------------------------------------- paths
DotGz == <<".", "g", "z">>
DotDump == <<".", "d", "u", "m", "p">>

\* time.Now().Format("2006-01-02_150405"), reduced to a two-digit rendering
\* of the clock value
FormatTime(t) == <<Digits[((t \div 10) % 10) + 1], Digits[(t % 10) + 1]>>

\* filepath.Join(dir, name)
Join(dir, name) == dir \o <<"/">> \o name

\* fmt.Sprintf("%s_%s.dump", dbName, timestamp) joined to backupDir
BackupPath(backupDir, dbName, t) ==
  Join(backupDir, dbName \o <<"_">> \o FormatTime(t) \o DotDump)

\* backupFile + ".gz"
CompressedPath(backupFile) == backupFile \o DotGz

\* backupFile[:len(backupFile)-3]; defined for len >= 3 only
StripSuffix(backupFile) == SubSeq(backupFile, 1, Len(backupFile) - 3)

\* filepath.Ext: the suffix from the last dot of the last path element
RECURSIVE ExtFrom(_, _)
ExtFrom(path, i) ==
  IF i < 1 THEN <<>>
  ELSE IF path[i] = "/" THEN <<>>
  ELSE IF path[i] = "." THEN SubSeq(path, i, Len(path))
  ELSE ExtFrom(path, i - 1)

Ext(path) == ExtFrom(path, Len(path))

\* index of the last path separator, 0 when there is none
RECURSIVE LastSep(_, _)
LastSep(path, i) ==
  IF i < 1 THEN 0 ELSE IF path[i] = "/" THEN i ELSE LastSep(path, i - 1)

ParentDir(path) == SubSeq(path, 1, LastSep(path, Len(path)) - 1)

\* ------------------------------------------------------------ filesystem
\* an entry: path, directory or not, modification time, whether unlinking
\* it is refused (locked), whether a directory can be listed (readable)
File(p, t, l) ==
  [path |-> p, isDir |-> FALSE, mtime |-> t, locked |-> l, readable |-> TRUE]

Dir(p, t, r) ==
  [path |-> p, isDir |-> TRUE, mtime |-> t, locked |-> FALSE, readable |-> r]

Exists(fs, p) == \E e \in fs : e.path = p

\* os.Lstat
Entry(fs, p) == CHOOSE e \in fs : e.path = p

\* a file can be created at p when p is not empty and its directory exists
\* (a path without a separator lives in the working directory)
CanCreate(fs, p) ==
  /\ p # <<>>
  /\ LastSep(p, Len(p)) # Len(p)
  /\ \/ LastSep(p, Len(p)) = 0
     \/ \E e \in fs : e.path = ParentDir(p) /\ e.isDir
  /\ ~ \E e \in fs : e.path = p /\ e.isDir

\* os.Create: create or truncate
FsCreate(fs, p, t) ==
  LET l == IF Exists(fs, p) THEN Entry(fs, p).locked ELSE FALSE
  IN  {e \in fs : e.path # p} \cup {File(p, t, l)}

\* os.Remove: [err, fs]
osRemove(fs, p) ==
  IF Exists(fs, p) /\ ~Entry(fs, p).locked
  THEN [err |-> FALSE, fs |-> {e \in fs : e.path # p}]
  ELSE [err |-> TRUE, fs |-> fs]

\* ------------------------------------------------------ the backup tree
BackupDir == <<"b">>
MissingDir == <<"n">>
LogPath == <<"l">>

AGz == Join(BackupDir, <<"a">> \o DotGz)
CDump == Join(BackupDir, <<"c">> \o DotDump)
GDir == Join(BackupDir, <<"g">> \o DotGz)
SDir == Join(BackupDir, <<"s">>)
EGz == Join(SDir, <<"e">> \o DotGz)
ZGz == Join(BackupDir, <<"z">> \o DotGz)

\* the trees the run may find: an artifact of any age, a stray dump, a
\* directory named like an artifact, a subdirectory (listable or not) with
\* an artifact in it, and an artifact sorting after everything else
TreeA ==
  {{}, {File(AGz, 0, TRUE)}} \cup {{File(AGz, t, FALSE)} : t \in 0..Now0}
TreeC == {{}, {File(CDump, 0, FALSE)}}
TreeG == {{}, {Dir(GDir, 0, TRUE)}}
TreeE == {{}, {File(EGz, 0, FALSE)}, {File(EGz, Now0, FALSE)}}
TreeS == {{}} \cup {{Dir(SDir, 0, r)} \cup e : r \in BOOLEAN, e \in TreeE}
TreeZ == {{}, {File(ZGz, 0, FALSE)}, {File(ZGz, 0, TRUE)}}

Trees ==
  {{Dir(BackupDir, 0, TRUE)} \cup a \cup c \cup g \cup s \cup z :
     a \in TreeA, c \in TreeC, g \in TreeG, s \in TreeS, z \in TreeZ}

\* ------------------------------------------------------- filepath.Walk
IsChild(dir, p) ==
  /\ Len(p) > Len(dir) + 1
  /\ SubSeq(p, 1, Len(dir) + 1) = dir \o <<"/">>
  /\ \A j \in (Len(dir) + 2)..Len(p) : p[j] # "/"

Children(fs, dir) == {e \in fs : IsChild(dir, e.path)}

RECURSIVE SortByName(_)
SortByName(S) ==
  IF S = {} THEN <<>>
  ELSE LET m == CHOOSE e \in S : \A o \in S \ {e} : LexLess(e.path, o.path)
       IN  <<m.path>> \o SortByName(S \ {m})

\* the order in which Walk hands paths to the callback: a directory, then
\* its entries by name, each subtree in full; an unlistable directory has
\* no entries
RECURSIVE WalkOrder(_, _)
RECURSIVE WalkAll(_, _)
WalkOrder(fs, p) ==
  LET e == Entry(fs, p)
  IN  IF e.isDir /\ e.readable
      THEN <<p>> \o WalkAll(fs, SortByName(Children(fs, p)))
      ELSE <<p>>

WalkAll(fs, names) ==
  IF names = <<>> THEN <<>>
  ELSE WalkOrder(fs, Head(names)) \o WalkAll(fs, Tail(names))

\* ------------------------------------------------------------------ time
\* time.Time.AddDate(0, 0, days)
AddDate(t, days) == t + days * TicksPerDay

\* "at or before", the comparison a sweep that also took files exactly at
\* the cutoff would make
Before_NonStrict(t, u) == t <= u
\* time.Time.Before, as the retention test uses it on ModTime and cutoff
Before(t, u) == t < u

\* ----------------------------------------------------------------- codec
\* what can happen to compressFile: a file that is not there cannot be
\* opened, a destination that cannot be created is not written
CompressOutcomes(fs, src, dst) ==
  IF ~Exists(fs, src) THEN {"open_fail"}
  ELSE IF ~CanCreate(fs, dst) THEN {"open_fail", "create_fail"}
  ELSE {"open_fail", "create_fail", "copy_fail", "close_fail", "ok"}

\* compressFile(src, dst) under one outcome: the error it returns, the
\* filesystem it leaves, and the handles its deferred calls close, in order.
\* The error of the deferred gw.Close() is discarded.
compressFile(fs, src, dst, t, outcome) ==
  CASE outcome = "open_fail" ->
         [err |-> TRUE, fs |-> fs, closed |-> <<>>]
    [] outcome = "create_fail" ->
         [err |-> TRUE, fs |-> fs, closed |-> <<"in">>]
    [] outcome = "copy_fail" ->
         [err |-> TRUE, fs |-> FsCreate(fs, dst, t), closed |-> <<"gw", "out", "in">>]
    [] outcome = "close_fail" ->
         [err |-> FALSE, fs |-> FsCreate(fs, dst, t), closed |-> <<"gw", "out", "in">>]
    [] OTHER ->
         [err |-> FALSE, fs |-> FsCreate(fs, dst, t), closed |-> <<"gw", "out", "in">>]

DecompressOutcomes(fs, src, dst) ==
  IF ~Exists(fs, src) \/ Entry(fs, src).isDir THEN {"open_fail"}
  ELSE IF ~CanCreate(fs, dst) THEN {"open_fail", "reader_fail", "create_fail"}
  ELSE {"open_fail", "reader_fail", "create_fail", "copy_fail", "ok"}

\* decompressFile(src, dst) under one outcome
decompressFile(fs, src, dst, t, outcome) ==
  CASE outcome = "open_fail" ->
         [err |-> TRUE, fs |-> fs, closed |-> <<>>]
    [] outcome = "reader_fail" ->
         [err |-> TRUE, fs |-> fs, closed |-> <<"in">>]
    [] outcome = "create_fail" ->
         [err |-> TRUE, fs |-> fs, closed |-> <<"gr", "in">>]
    [] outcome = "copy_fail" ->
         [err |-> TRUE, fs |-> FsCreate(fs, dst, t), closed |-> <<"out", "gr", "in">>]
    [] OTHER ->
         [err |-> FALSE, fs |-> FsCreate(fs, dst, t), closed |-> <<"out", "gr", "in">>]

\* ------------------------------------------------------------ validation
\* the check of the database name alone
backupInvalid_NoDirCheck(fs, dbName, backupDir) == dbName = <<>>
\* runBackup: dbName == "" or os.Stat(backupDir) reports IsNotExist
backupInvalid(fs, dbName, backupDir) ==
  dbName = <<>> \/ ~Exists(fs, backupDir)

\* runRestore: dbName == "" || backupFile == ""
restoreInvalid(dbName, backupFile) == dbName = <<>> \/ backupFile = <<>>

\* ------------------------------------------------------- failure paths
\* a failure path that exits without removing anything
dumpFailed_NoRemove(fs, backupFile) == fs
\* runBackup when cmd.Run() fails: os.Remove(backupFile) before os.Exit(1)
dumpFailed(fs, backupFile) == osRemove(fs, backupFile).fs

\* a callback that hands the removal error back to Walk
afterRemove_Propagate(rmErr) == IF rmErr THEN "err" ELSE "nil"
\* what the Walk callback returns once os.Remove has been tried: nil, the
\* failure is only logged
afterRemove(rmErr) == "nil"

\* the Walk callback of cleanupOldBackups on one path
walkFn(fs, path, info, err, cutoffTime) ==
  IF err
  THEN [ret |-> "err", fs |-> fs, tried |-> FALSE, rmErr |-> FALSE]
  ELSE IF ~info.isDir /\ Ext(path) = DotGz /\ Before(info.mtime, cutoffTime)
       THEN LET r == osRemove(fs, path)
            IN  [ret |-> afterRemove(r.err), fs |-> r.fs,
                 tried |-> TRUE, rmErr |-> r.err]
       ELSE [ret |-> "nil", fs |-> fs, tried |-> FALSE, rmErr |-> FALSE]

\* ----------------------------------------------------------------- state
VARIABLES
  pc,          \* position of the process
  exitCode,    \* exit status, -1 while running
  args,        \* the parsed command line
  fs,          \* the filesystem
  now,         \* the wall clock
  backupFile,  \* runBackup: path of the uncompressed dump
  compressedFile, \* runBackup: path of the artifact
  tempFile,    \* runRestore: path of the decompressed payload
  deferred,    \* runRestore: defer os.Remove(tempFile) is registered
  compressErr, \* what compressFile returned: "none", "nil" or "err"
  closed,      \* handles closed by the last codec call, in order
  cutoff,      \* cleanupOldBackups: the cutoff time
  walk,        \* cleanupOldBackups: the paths Walk visits, in order
  walkIdx,     \* cleanupOldBackups: next index in walk
  walkErr,     \* cleanupOldBackups: Walk stopped on an error
  done,        \* stages started so far
  failed,      \* stages that failed so far
  launched,    \* external programs started
  fsOps,       \* kinds of filesystem mutation performed
  sweepFs,     \* the filesystem when the sweep started
  attempted,   \* paths the sweep tried to remove
  removed,     \* paths the sweep removed
  rmFailed     \* paths the sweep failed to remove

vars ==
  <<pc, exitCode, args, fs, now, backupFile, compressedFile, tempFile,
    deferred, compressErr, closed, cutoff, walk, walkIdx, walkErr, done,
    failed, launched, fsOps, sweepFs, attempted, removed, rmFailed>>

NoArgs ==
  [cmd |-> "none", flags |-> "ok", db |-> <<>>, dir |-> <<>>,
   file |-> <<>>, retention |-> 0]

DbNames == {<<>>, <<"d">>}
DirArgs == {BackupDir, MissingDir}
Retentions == (0 - MaxNegRetention)..MaxRetention
FileArgs ==
  {<<>>, <<"g", "z">>, DotGz, AGz, EGz, <<"x">> \o DotGz, CDump}

BackupArgs ==
  {[cmd |-> "backup", flags |-> "ok", db |-> d, dir |-> b, file |-> <<>>,
    retention |-> r] : d \in DbNames, b \in DirArgs, r \in Retentions}

RestoreArgs ==
  {[cmd |-> "restore", flags |-> "ok", db |-> d, dir |-> <<>>, file |-> f,
    retention |-> 0] : d \in DbNames, f \in FileArgs}

Init ==
  /\ pc = "main"
  /\ exitCode = -1
  /\ args = NoArgs
  /\ fs \in Trees
  /\ now = Now0
  /\ backupFile = <<>>
  /\ compressedFile = <<>>
  /\ tempFile = <<>>
  /\ deferred = FALSE
  /\ compressErr = "none"
  /\ closed = <<>>
  /\ cutoff = 0
  /\ walk = <<>>
  /\ walkIdx = 0
  /\ walkErr = FALSE
  /\ done = {}
  /\ failed = {}
  /\ launched = {}
  /\ fsOps = {}
  /\ sweepFs = {}
  /\ attempted = {}
  /\ removed = {}
  /\ rmFailed = {}

\* os.Exit(code), and the return from main: deferred calls run only on a
\* return, which the returning actions perform themselves
Exit(code) == pc' = "exited" /\ exitCode' = code

sweepVars == <<cutoff, walk, walkIdx, walkErr, sweepFs, attempted, removed, rmFailed>>
backupVars == <<backupFile, compressedFile, compressErr>>
restoreVars == <<tempFile, deferred>>

\* ------------------------------------------------------------------ main
\* main: no command or an unknown one prints the usage and exits 1; the
\* flag set is parsed with flag.ExitOnError (a bad flag exits 2, -h exits 0)
Main ==
  /\ pc = "main"
  /\ \/ /\ \E c \in {"none", "other"} : args' = [NoArgs EXCEPT !.cmd = c]
        /\ Exit(1)
     \/ /\ \E c \in {"backup", "restore"}, f \in {"bad", "help"} :
             args' = [NoArgs EXCEPT !.cmd = c, !.flags = f]
        /\ Exit(IF args'.flags = "bad" THEN 2 ELSE 0)
     \/ /\ args' \in BackupArgs
        /\ pc' = "runBackup"
        /\ UNCHANGED exitCode
     \/ /\ args' \in RestoreArgs
        /\ pc' = "runRestore"
        /\ UNCHANGED exitCode
  /\ UNCHANGED <<fs, now, closed, done, failed, launched, fsOps>>
  /\ UNCHANGED <<backupVars, restoreVars, sweepVars>>

\* the clock advances while an external program or the codec runs
TickPcs == {"b_dump", "b_sweep", "r_restore"}

Tick ==
  /\ pc \in TickPcs
  /\ now < Now0 + MaxTicks
  /\ now' = now + 1
  /\ UNCHANGED <<pc, exitCode, args, fs, closed, done, failed, launched, fsOps>>
  /\ UNCHANGED <<backupVars, restoreVars, sweepVars>>

\* ------------------------------------------------------------- runBackup
\* the two checks at the top of runBackup
BackupValidate ==
  /\ pc = "runBackup"
  /\ IF backupInvalid(fs, args.db, args.dir)
     THEN Exit(1)
     ELSE pc' = "b_openlog" /\ UNCHANGED exitCode
  /\ UNCHANGED <<args, fs, now, closed, done, failed, launched, fsOps>>
  /\ UNCHANGED <<backupVars, restoreVars, sweepVars>>

\* os.OpenFile(logFile, O_APPEND|O_CREATE|O_WRONLY), then the file name
BackupOpenLog ==
  /\ pc = "b_openlog"
  /\ \E ok \in BOOLEAN :
       IF ok
       THEN /\ fs' = IF Exists(fs, LogPath) THEN fs ELSE FsCreate(fs, LogPath, now)
            /\ fsOps' = fsOps \cup {"openlog"}
            /\ backupFile' = BackupPath(args.dir, args.db, now)
            /\ pc' = "b_create"
            /\ UNCHANGED <<exitCode, failed>>
       ELSE /\ failed' = failed \cup {"openlog"}
            /\ Exit(1)
            /\ UNCHANGED <<fs, fsOps, backupFile>>
  /\ UNCHANGED <<args, now, closed, done, launched, compressedFile, compressErr>>
  /\ UNCHANGED <<restoreVars, sweepVars>>

\* os.Create(backupFile)
BackupCreate ==
  /\ pc = "b_create"
  /\ \E ok \in {o \in BOOLEAN : o => CanCreate(fs, backupFile)} :
       IF ok
       THEN /\ fs' = FsCreate(fs, backupFile, now)
            /\ fsOps' = fsOps \cup {"create"}
            /\ pc' = "b_dump"
            /\ UNCHANGED <<exitCode, failed>>
       ELSE /\ failed' = failed \cup {"create"}
            /\ Exit(1)
            /\ UNCHANGED <<fs, fsOps>>
  /\ UNCHANGED <<args, now, closed, done, launched>>
  /\ UNCHANGED <<backupVars, restoreVars, sweepVars>>

\* cmd.Run() of pg_dump, writing to backupFile; on failure the file is
\* removed and the process exits 1
BackupRunDump ==
  /\ pc = "b_dump"
  /\ done' = done \cup {"dump"}
  /\ \E outcome \in {"ok", "exit_nonzero", "launch_error"} :
       /\ launched' = IF outcome = "launch_error" THEN launched
                      ELSE launched \cup {"pg_dump"}
       /\ IF outcome = "ok"
          THEN /\ fs' = FsCreate(fs, backupFile, now)
               /\ pc' = "b_compress"
               /\ UNCHANGED <<exitCode, failed, fsOps>>
          ELSE /\ failed' = failed \cup {"dump"}
               /\ fs' = dumpFailed(fs, backupFile)
               /\ fsOps' = fsOps \cup {"remove"}
               /\ Exit(1)
  /\ UNCHANGED <<args, now, closed>>
  /\ UNCHANGED <<backupVars, restoreVars, sweepVars>>

\* compressFile(backupFile, backupFile + ".gz"); an error exits 1
BackupCompress ==
  /\ pc = "b_compress"
  /\ done' = done \cup {"compress"}
  /\ compressedFile' = CompressedPath(backupFile)
  /\ \E outcome \in CompressOutcomes(fs, backupFile, CompressedPath(backupFile)) :
       LET r == compressFile(fs, backupFile, CompressedPath(backupFile), now, outcome)
       IN  /\ fs' = r.fs
           /\ closed' = r.closed
           /\ compressErr' = IF r.err THEN "err" ELSE "nil"
           /\ fsOps' = IF r.fs # fs THEN fsOps \cup {"create"} ELSE fsOps
           /\ failed' = IF outcome # "ok" THEN failed \cup {"compress"} ELSE failed
           /\ IF r.err THEN Exit(1) ELSE pc' = "b_remove" /\ UNCHANGED exitCode
  /\ UNCHANGED <<args, now, launched, backupFile>>
  /\ UNCHANGED <<restoreVars, sweepVars>>

\* os.Remove(backupFile) after a compression that returned nil
BackupRemove ==
  /\ pc = "b_remove"
  /\ done' = done \cup {"delete"}
  /\ fs' = osRemove(fs, backupFile).fs
  /\ fsOps' = fsOps \cup {"remove"}
  /\ pc' = "b_sweep"
  /\ UNCHANGED <<exitCode, args, now, closed, failed, launched>>
  /\ UNCHANGED <<backupVars, restoreVars, sweepVars>>

\* ----------------------------------------------------- cleanupOldBackups
\* the cutoff is computed and filepath.Walk starts at backupDir
CleanupStart ==
  /\ pc = "b_sweep"
  /\ done' = done \cup {"sweep"}
  /\ cutoff' = AddDate(now, 0 - args.retention)
  /\ walk' = WalkOrder(fs, args.dir)
  /\ walkIdx' = 1
  /\ sweepFs' = fs
  /\ pc' = "b_walk"
  /\ UNCHANGED <<exitCode, args, fs, now, closed, failed, launched, fsOps>>
  /\ UNCHANGED <<walkErr, attempted, removed, rmFailed>>
  /\ UNCHANGED <<backupVars, restoreVars>>

\* Walk hands one path to the callback; an error returned by the callback
\* ends the walk
WalkStep ==
  /\ pc = "b_walk"
  /\ LET path == walk[walkIdx]
         info == Entry(fs, path)
         err  == info.isDir /\ ~info.readable
         r    == walkFn(fs, path, info, err, cutoff)
     IN  /\ fs' = r.fs
         /\ attempted' = IF r.tried THEN attempted \cup {path} ELSE attempted
         /\ removed' = IF r.tried /\ ~r.rmErr THEN removed \cup {path} ELSE removed
         /\ rmFailed' = IF r.tried /\ r.rmErr THEN rmFailed \cup {path} ELSE rmFailed
         /\ fsOps' = IF r.tried /\ ~r.rmErr THEN fsOps \cup {"remove"} ELSE fsOps
         /\ walkErr' = (r.ret = "err")
         /\ walkIdx' = walkIdx + 1
         /\ pc' = IF r.ret = "err" \/ walkIdx = Len(walk)
                  THEN "b_sweep_end" ELSE "b_walk"
  /\ UNCHANGED <<exitCode, args, now, closed, done, failed, launched>>
  /\ UNCHANGED <<cutoff, walk, sweepFs>>
  /\ UNCHANGED <<backupVars, restoreVars>>

\* Walk's result is dropped, "Cleanup complete." is printed, runBackup and
\* main return
CleanupEnd ==
  /\ pc = "b_sweep_end"
  /\ Exit(0)
  /\ UNCHANGED <<args, fs, now, closed, done, failed, launched, fsOps>>
  /\ UNCHANGED <<backupVars, restoreVars, sweepVars>>

\* ------------------------------------------------------------ runRestore
\* the check at the top of runRestore
RestoreValidate ==
  /\ pc = "runRestore"
  /\ IF restoreInvalid(args.db, args.file)
     THEN Exit(1)
     ELSE pc' = "r_openlog" /\ UNCHANGED exitCode
  /\ UNCHANGED <<args, fs, now, closed, done, failed, launched, fsOps>>
  /\ UNCHANGED <<backupVars, restoreVars, sweepVars>>

RestoreOpenLog ==
  /\ pc = "r_openlog"
  /\ \E ok \in BOOLEAN :
       IF ok
       THEN /\ fs' = IF Exists(fs, LogPath) THEN fs ELSE FsCreate(fs, LogPath, now)
            /\ fsOps' = fsOps \cup {"openlog"}
            /\ pc' = "r_decompress"
            /\ UNCHANGED <<exitCode, failed>>
       ELSE /\ failed' = failed \cup {"openlog"}
            /\ Exit(1)
            /\ UNCHANGED <<fs, fsOps>>
  /\ UNCHANGED <<args, now, closed, done, launched>>
  /\ UNCHANGED <<backupVars, restoreVars, sweepVars>>

\* tempFile := backupFile[:len(backupFile)-3] panics on a path shorter than
\* three bytes (the runtime exits 2); otherwise decompressFile runs, an
\* error exits 1, and success registers defer os.Remove(tempFile)
RestoreDecompress ==
  /\ pc = "r_decompress"
  /\ IF Len(args.file) < 3
     THEN /\ failed' = failed \cup {"derive"}
          /\ Exit(2)
          /\ UNCHANGED <<fs, closed, done, fsOps, tempFile, deferred>>
     ELSE /\ tempFile' = StripSuffix(args.file)
          /\ done' = done \cup {"decompress"}
          /\ \E outcome \in DecompressOutcomes(fs, args.file, StripSuffix(args.file)) :
               LET r == decompressFile(fs, args.file, StripSuffix(args.file), now, outcome)
               IN  /\ fs' = r.fs
                   /\ closed' = r.closed
                   /\ fsOps' = IF r.fs # fs THEN fsOps \cup {"create"} ELSE fsOps
                   /\ IF r.err
                      THEN /\ failed' = failed \cup {"decompress"}
                           /\ Exit(1)
                           /\ UNCHANGED deferred
                      ELSE /\ deferred' = TRUE
                           /\ pc' = "r_restore"
                           /\ UNCHANGED <<exitCode, failed>>
  /\ UNCHANGED <<args, now, launched>>
  /\ UNCHANGED <<backupVars, sweepVars>>

\* cmd.Run() of pg_restore; on failure os.Exit(1) ends the process at once,
\* no deferred call runs
RestoreRun ==
  /\ pc = "r_restore"
  /\ done' = done \cup {"restore"}
  /\ \E outcome \in {"ok", "exit_nonzero", "launch_error"} :
       /\ launched' = IF outcome = "launch_error" THEN launched
                      ELSE launched \cup {"pg_restore"}
       /\ IF outcome = "ok"
          THEN pc' = "r_return" /\ UNCHANGED <<exitCode, failed>>
          ELSE failed' = failed \cup {"restore"} /\ Exit(1)
  /\ UNCHANGED <<args, fs, now, closed, fsOps>>
  /\ UNCHANGED <<backupVars, restoreVars, sweepVars>>

\* runRestore returns: the deferred os.Remove(tempFile) runs, main returns
RestoreReturn ==
  /\ pc = "r_return"
  /\ fs' = IF deferred THEN osRemove(fs, tempFile).fs ELSE fs
  /\ fsOps' = IF deferred THEN fsOps \cup {"remove"} ELSE fsOps
  /\ Exit(0)
  /\ UNCHANGED <<args, now, closed, done, failed, launched>>
  /\ UNCHANGED <<backupVars, restoreVars, sweepVars>>

Next ==
  \/ Main
  \/ Tick
  \/ BackupValidate
  \/ BackupOpenLog
  \/ BackupCreate
  \/ BackupRunDump
  \/ BackupCompress
  \/ BackupRemove
  \/ CleanupStart
  \/ WalkStep
  \/ CleanupEnd
  \/ RestoreValidate
  \/ RestoreOpenLog
  \/ RestoreDecompress
  \/ RestoreRun
  \/ RestoreReturn

Spec == Init /\ [][Next]_vars

\* ============================================================ properties
\* the command line parsed and one of the checks at the top of runBackup or
\* runRestore must reject it
ValidationFailure ==
  /\ args.flags = "ok"
  /\ \/ args.cmd = "backup" /\ (args.db = <<>> \/ ~Exists(fs, args.dir))
     \/ args.cmd = "restore" /\ (args.db = <<>> \/ args.file = <<>>)

\* the non-directory entries of a tree with extension .gz and a
\* modification time strictly before the cutoff
ExpiredGz(tree, c) ==
  {e.path : e \in {x \in tree : ~x.isDir /\ Ext(x.path) = DotGz /\ x.mtime < c}}

Unlistable(tree, p) == Entry(tree, p).isDir /\ ~Entry(tree, p).readable

\* p is handed to the callback before Walk meets a directory it cannot list
Reached(p) ==
  \E i \in 1..Len(walk) :
     /\ walk[i] = p
     /\ \A j \in 1..i : ~Unlistable(sweepFs, walk[j])

SweepOver == pc \in {"b_sweep_end", "exited"} /\ "sweep" \in done

\* C1: after any restore run that started decompression, whatever its
\* outcome, the temporary decompressed file (the input path without its
\* last three characters) does not exist when the process has exited.
C1_TempFileGoneAfterRestore ==
  (pc = "exited" /\ "decompress" \in done) => ~Exists(fs, tempFile)

\* C2: after a backup run whose dump and compression both succeed and that
\* exits 0, for every accepted -retention value, the intermediate .dump file
\* does not exist and the .dump.gz artifact of this run exists.
C2_SuccessfulBackupKeepsArtifact ==
  (pc = "exited" /\ args.cmd = "backup" /\ exitCode = 0
     /\ "compress" \in done /\ failed = {})
  => (~Exists(fs, backupFile) /\ Exists(fs, compressedFile))

\* C3: after a backup run whose dump program fails (non-zero exit or launch
\* error) the process exits 1, neither the intermediate file nor a
\* compressed artifact of this run exists, and compression and the
\* retention sweep were never started.
C3_FailedDumpLeavesNothing ==
  (pc = "exited" /\ "dump" \in failed)
  => /\ exitCode = 1
     /\ ~Exists(fs, backupFile)
     /\ ~Exists(fs, CompressedPath(backupFile))
     /\ done \cap {"compress", "delete", "sweep"} = {}
     /\ compressErr = "none"
     /\ walk = <<>>

\* a run in which pg_dump was started and exited non-zero has ended
C3_Witness ==
  pc = "exited" /\ "dump" \in failed /\ "pg_dump" \in launched

\* C4 as stated: the set of paths the sweep removes is exactly the regular
\* files under the backup directory, at any depth, with extension .gz and
\* modification time strictly before now minus retentionDays days.
C4_SweepRemovesExactlyExpired ==
  (SweepOver /\ failed = {}) => removed = ExpiredGz(sweepFs, cutoff)

\* C4 amended: the sweep removes exactly those expired .gz files that Walk
\* reaches before a directory it cannot list and whose removal succeeds;
\* every other entry (no .gz extension, modification time at or after the
\* cutoff, or a directory) is left as it was.
C4_SweepRemovesReachedExpired ==
  SweepOver
  => /\ removed = {p \in ExpiredGz(sweepFs, cutoff) :
                     Reached(p) /\ ~Entry(sweepFs, p).locked}
     /\ fs = {e \in sweepFs : e.path \notin removed}
     /\ \A e \in sweepFs :
          (e.isDir \/ Ext(e.path) # DotGz \/ e.mtime >= cutoff) => e \in fs

\* a sweep has removed an artifact and left an artifact whose modification
\* time is the cutoff itself, an old file without .gz, and an old artifact
\* that could not be unlinked
C4_Witness ==
  /\ pc = "exited"
  /\ removed # {}
  /\ \E e \in fs : ~e.isDir /\ Ext(e.path) = DotGz /\ e.mtime = cutoff
  /\ \E e \in fs : ~e.isDir /\ Ext(e.path) # DotGz /\ e.mtime < cutoff
                   /\ e.path # LogPath
  /\ \E e \in fs : e.locked /\ e.path \in ExpiredGz(sweepFs, cutoff)

\* C5: every validation failure (backup with empty -db or a -backup-dir that
\* does not exist, restore with empty -db or empty -file) exits 1 before any
\* file is created, opened for writing or deleted, the log file included,
\* and before any external process is launched.
C5_ValidationFailureTouchesNothing ==
  (pc = "exited" /\ ValidationFailure)
  => /\ exitCode = 1
     /\ fsOps = {}
     /\ launched = {}
     /\ done = {}
     /\ fs \in Trees

\* a backup with a database name and a backup directory that does not exist
\* has ended
C5_Witness ==
  /\ pc = "exited"
  /\ args.cmd = "backup"
  /\ args.flags = "ok"
  /\ args.db # <<>>
  /\ ~Exists(fs, args.dir)

\* C6: every invocation (here: every one whose flags parse) ends with exit
\* status 0 or 1; 0 only when every stage succeeded, 1 whenever a validation
\* error, an I/O error (deriving the temporary path from a non-empty -file
\* included) or a failure of an external program occurred.
C6_ExitStatusZeroOrOne ==
  (pc = "exited" /\ args.flags = "ok")
  => /\ exitCode \in {0, 1}
     /\ exitCode = 0 => failed = {}
     /\ (failed # {} \/ ValidationFailure) => exitCode = 1

\* C7: at the end of every backup run that created the intermediate dump,
\* the run whose compression fails included, the intermediate file has been
\* deleted.
C7_IntermediateDeletedAtExit ==
  (pc = "exited" /\ "dump" \in done) => ~Exists(fs, backupFile)

\* C8: stages run in the fixed order and no stage runs after an earlier
\* stage of the same run has failed: compression only after a successful
\* dump, the deletion of the intermediate file only after a successful
\* compression, the sweep only after that; pg_restore only after a
\* successful decompression.
C8_NoStageAfterFailure ==
  /\ "compress" \in done => ("dump" \in done /\ "dump" \notin failed)
  /\ "delete" \in done =>
       ("compress" \in done /\ compressErr = "nil" /\ "compress" \notin failed)
  /\ "sweep" \in done => ("delete" \in done /\ "compress" \notin failed)
  /\ "restore" \in done =>
       ("decompress" \in done /\ "decompress" \notin failed)

\* C9 as stated: when one removal fails, the sweep still attempts the
\* removal of every other expired .gz file in the tree, and the run exits 0.
C9_SweepAttemptsEveryExpired ==
  (pc = "exited" /\ rmFailed # {} /\ failed = {})
  => (exitCode = 0 /\ ExpiredGz(sweepFs, cutoff) \subseteq attempted)

\* C9 amended: when one removal fails, the sweep still attempts the removal
\* of every other expired .gz file that Walk reaches (Walk stops only at a
\* directory it cannot list, never at a failed removal), and the run exits 0.
C9_SweepAttemptsEveryReached ==
  (pc = "exited" /\ rmFailed # {})
  => /\ exitCode = 0
     /\ attempted = {p \in ExpiredGz(sweepFs, cutoff) : Reached(p)}

\* a removal failed and a file visited later was removed all the same
C9_Witness ==
  /\ pc = "exited"
  /\ exitCode = 0
  /\ \E i, j \in 1..Len(walk) :
        i < j /\ walk[i] \in rmFailed /\ walk[j] \in removed

\* C10: compressFile returns a non-nil error whenever one of its stages
\* fails (open, create, copy, closing the compressor), it closes the
\* compressor before the destination, and a backup never reports success
\* for an artifact whose compressor flush failed.
C10_CompressFailureSurfaces ==
  compressErr # "none"
  => /\ "compress" \in failed => compressErr = "err"
     /\ \A i, j \in 1..Len(closed) :
          (closed[i] = "gw" /\ closed[j] = "out") => i < j
     /\ ~(pc = "exited" /\ exitCode = 0 /\ "compress" \in failed)

====
